---- MODULE Spec2Model ----
(***************************************************************************)
(* Model of the Netmiko bulk runner (src/old/OLD_run_commands_netmiko.py): *)
(* main loads an inventory and a command list, submits one run_on_device   *)
(* call per device to a ThreadPoolExecutor and gathers the transcript      *)
(* paths with as_completed.                                                *)
(*                                                                         *)
(* Text that the program inspects character by character (hostname, host,  *)
(* port, file names) is a sequence of one-character strings.  Text that    *)
(* the program only tests for emptiness (secret, device_type, username,    *)
(* password) is a TLA+ string; "" stands for both Python's "" and None,    *)
(* which the code never tells apart (`x or y`, `if x`).                    *)
(*                                                                         *)
(* Three specifications share the actions:                                 *)
(*   Spec        a batch run of main, from the command line on;            *)
(*   SpecUnit    one run_on_device call with any mode, secret and command  *)
(*               list, inside main's pool and loop;                        *)
(*   SpecParams  build_params on rows whose port is any short string.      *)
(***************************************************************************)
EXTENDS Integers, Sequences, FiniteSets, TLC

(***************************************************************************)
(* Bounds of the model.                                                    *)
(***************************************************************************)
MaxDevices == 2

MaxThreads == 2

MaxClock == 1

MaxPortLen == 3

(***************************************************************************)
(* Characters.                                                             *)
(***************************************************************************)
Space == {" ", "\t"}

Reserved == {"\\", "/", "<", ">", ":", "\"", "|", "?", "*"}

DigitChars == <<"0", "1", "2", "3", "4", "5", "6", "7", "8", "9">>

IsDigit(c) == \E k \in 1..10 : DigitChars[k] = c

DigitVal(c) == (CHOOSE k \in 1..10 : DigitChars[k] = c) - 1

Truthy(s) == s /= <<>>

(***************************************************************************)
(* value.split() followed by " ".join(...): leading and trailing           *)
(* whitespace goes, every inner run of whitespace becomes one space.       *)
(***************************************************************************)
RECURSIVE SplitJoin(_, _)
SplitJoin(s, started) ==
    IF s = <<>> THEN <<>>
    ELSE IF Head(s) \in Space
         THEN LET rest == SplitJoin(Tail(s), started)
              IN  IF started /\ Tail(s) /= <<>> /\ Head(Tail(s)) \notin Space
                  THEN <<" ">> \o rest
                  ELSE rest
         ELSE <<Head(s)>> \o SplitJoin(Tail(s), TRUE)

ReplaceChars(s, from, to) ==
    [k \in 1..Len(s) |-> IF s[k] \in from THEN to ELSE s[k]]

\* Fault injection: a sanitizer that leaves whitespace runs as they are.
SafeHostnameKeepRuns(value) ==
    ReplaceChars(ReplaceChars(value, Reserved, "-"), {" "}, "_")

safe_hostname(value) ==
    IF ~Truthy(value) THEN <<"u", "n", "k", "n", "o", "w", "n">>
    ELSE LET v1 == SplitJoin(value, FALSE)
             v2 == ReplaceChars(v1, Reserved, "-")
         IN  ReplaceChars(v2, {" "}, "_")

(***************************************************************************)
(* int(port) on a value load_devices has already stripped: an optional     *)
(* sign, then decimal digits, single underscores allowed between digits.   *)
(* ok = FALSE stands for ValueError.                                       *)
(***************************************************************************)
RECURSIVE DigitsValue(_, _)
DigitsValue(s, acc) ==
    IF s = <<>> THEN acc
    ELSE IF Head(s) = "_" THEN DigitsValue(Tail(s), acc)
    ELSE DigitsValue(Tail(s), acc * 10 + DigitVal(Head(s)))

WellFormedDigits(s) ==
    /\ s /= <<>>
    /\ IsDigit(s[1]) /\ IsDigit(s[Len(s)])
    /\ \A k \in 1..Len(s) : IsDigit(s[k]) \/ s[k] = "_"
    /\ \A k \in 1..(Len(s) - 1) : ~(s[k] = "_" /\ s[k + 1] = "_")

int(s) ==
    LET signed == s /= <<>> /\ s[1] \in {"-", "+"}
        body   == IF signed THEN Tail(s) ELSE s
    IN  IF WellFormedDigits(body)
        THEN [ok |-> TRUE,
              val |-> IF signed /\ s[1] = "-" THEN 0 - DigitsValue(body, 0)
                      ELSE DigitsValue(body, 0)]
        ELSE [ok |-> FALSE, val |-> 0]

(***************************************************************************)
(* Dictionaries with optional keys: params.get(k).                         *)
(***************************************************************************)
Get(d, k, default) == IF k \in DOMAIN d THEN d[k] ELSE default

Or(a, b) == IF a /= "" THEN a ELSE b

(***************************************************************************)
(* build_params.  The port is parsed only when the row has one; a          *)
(* ValueError leaves the key out of the dictionary.                        *)
(***************************************************************************)
PortEntry(port) ==
    IF Truthy(port) /\ int(port).ok THEN [port |-> int(port).val] ELSE <<>>

SecretEntry(secret) ==
    IF secret /= "" THEN [secret |-> secret] ELSE <<>>

KeyEntries(use_keys, key_file) ==
    IF use_keys
    THEN (IF key_file /= "" THEN [key_file |-> key_file] ELSE <<>>)
         @@ [use_keys |-> TRUE]
    ELSE <<>>

build_params(device_row, global_user, global_pass, global_secret, use_keys, key_file) ==
    [device_type |-> Or(device_row.device_type, "cisco_ios"),
     host        |-> device_row.host,
     fast_cli    |-> TRUE,
     username    |-> Or(device_row.username, global_user),
     password    |-> Or(device_row.password, global_pass)]
    @@ SecretEntry(Or(device_row.secret, global_secret))
    @@ PortEntry(device_row.port)
    @@ KeyEntries(use_keys, key_file)

(***************************************************************************)
(* Inputs of a run: the rows of the inventory CSV as csv.DictReader hands  *)
(* them over, the lines of the command file, and the command line.         *)
(***************************************************************************)
Row(hostname, host, secret, port) ==
    [hostname |-> hostname, host |-> host, device_type |-> "",
     username |-> "", password |-> "", secret |-> secret, port |-> port]

RawRows ==
    { Row(<<"s", " ", "1">>, <<"h">>, "", <<>>),
      Row(<<>>, <<"h", "2">>, "s3", <<"2", "2">>),
      Row(<<"s", "w">>, <<" ">>, "", <<>>) }

RECURSIVE SeqsUpTo(_, _)
SeqsUpTo(S, n) ==
    IF n = 0 THEN {<<>>}
    ELSE LET shorter == SeqsUpTo(S, n - 1)
         IN  shorter \cup {Append(q, x) : q \in shorter, x \in S}

Inventories == SeqsUpTo(RawRows, MaxDevices)

CommandFiles ==
    { <<>>,
      << <<"#", "x">>, <<>> >>,
      << <<"!">>, <<"a">>, <<>> >> }

Modes == {"show", "config", "other"}

\* Fault injection: a parser without the choices restriction.
AnyModeChoices == {"show", "config", "other"}

ModeChoices == {"show", "config"}

TypedSecrets == {"", "g5"}

\* --cmd-delay: 0.0 by default, else the seconds given.
Delays == {0, 1}

(***************************************************************************)
(* Outcomes of the calls into the session library and the file system.     *)
(* The library may raise any exception; what the code tells apart is its   *)
(* class: NetmikoAuthenticationException, NetmikoTimeoutException,         *)
(* TypeError (by the show loop only), and every other Exception.           *)
(***************************************************************************)
ExcKinds == {"auth", "timeout", "type", "other"}

NoExc == "none"

\* The class the except clauses of run_on_device see.
Class(kind) == IF kind = "type" THEN "other" ELSE kind

VARIABLES
    mainPc,      \* where main is
    mode,        \* --mode as typed
    threads,     \* --threads
    typed,       \* what the operator answers to the enable/secret prompt
    cmd_delay,   \* --cmd-delay, in seconds
    g_secret,    \* main's g_secret
    csvRows,     \* the inventory file
    cmdLines,    \* the command file
    devices,     \* load_devices' result
    commands,    \* load_commands' result
    submitted,   \* number of futures appended to main's `futures`
    workQueue,   \* the pool's queue of work items not yet taken by a worker
    unit,        \* per future: the run_on_device call behind it
    files,       \* the output directory: path -> text
    clock,       \* the wall clock, in seconds
    doneOrder,   \* the futures in the order they finished
    waiting,     \* as_completed: has the waiter been installed
    snapshot,    \* as_completed: futures found finished at the call
    waiterList,  \* as_completed: futures that finished since, not yet yielded
    yielded,     \* the futures as_completed has yielded, in order
    results,     \* main's `results`
    probe,       \* a device row handed to build_params on its own
    answer       \* what build_params made of it

vars == <<mainPc, mode, threads, typed, cmd_delay, g_secret, csvRows, cmdLines,
          devices, commands, submitted, workQueue, unit, files, clock,
          doneOrder, waiting, snapshot, waiterList, yielded, results, probe,
          answer>>

inputs == <<mode, threads, typed, cmd_delay, csvRows, cmdLines, probe, answer>>

poolVars == <<submitted, workQueue, unit, files, doneOrder>>

collectVars == <<waiting, snapshot, waiterList, yielded, results>>

(***************************************************************************)
(* load_devices and load_commands.                                         *)
(***************************************************************************)
RECURSIVE lstrip(_)
lstrip(s) ==
    IF s /= <<>> /\ Head(s) \in Space THEN lstrip(Tail(s)) ELSE s

RECURSIVE rstrip(_)
rstrip(s) ==
    IF s /= <<>> /\ s[Len(s)] \in Space THEN rstrip(SubSeq(s, 1, Len(s) - 1))
    ELSE s

strip(s) == rstrip(lstrip(s))

StripRow(row) ==
    [row EXCEPT !.hostname = strip(@), !.host = strip(@), !.port = strip(@)]

\* Fault injection: a loader that keeps every row.
HasHostAlways(device) == TRUE

HasHost(device) == Truthy(device.host)

load_devices(rows) ==
    SelectSeq([k \in 1..Len(rows) |-> StripRow(rows[k])], HasHost)

IsCommand(ln) ==
    /\ Truthy(ln)
    /\ ~(lstrip(ln) /= <<>> /\ Head(lstrip(ln)) \in {"#", "!"})

load_commands(lines) == SelectSeq(lines, IsCommand)

(***************************************************************************)
(* run_on_device, the part before the try: names and header.               *)
(***************************************************************************)
Hostname(device_row) ==
    IF Truthy(device_row.hostname) THEN device_row.hostname
    ELSE device_row.host

\* The runs modelled give no global user or password and use no SSH keys.
Params(device_row) == build_params(device_row, "", "", g_secret, FALSE, "")

\* strftime("%Y%m%d-%H%M%S"): fixed width, one value per second.
strftime(t) == <<DigitChars[((t \div 10) % 10) + 1], DigitChars[(t % 10) + 1]>>

\* Fault injection: a file name without the timestamp.
FnameNoTimestamp(device_row, ts) ==
    safe_hostname(Hostname(device_row)) \o <<"_">> \o device_row.host
        \o <<".log">>

Fname(device_row, ts) ==
    safe_hostname(Hostname(device_row)) \o <<"_">> \o device_row.host
        \o <<"_">> \o strftime(ts) \o <<".log">>

Outfile(i) == Fname(unit[i].row, unit[i].ts)

PortLine(params) ==
    IF Get(params, "port", 0) /= 0 THEN << <<"port", params.port>> >>
    ELSE <<>>

Header(device_row, m) ==
    << <<"DEVICE", Hostname(device_row), device_row.host>>,
       <<"device_type", Params(device_row).device_type>>,
       <<"mode", m>> >>
    \o PortLine(Params(device_row))

Tag(kind) ==
    CASE kind = "auth" -> "AUTHENTICATION FAILED"
      [] kind = "timeout" -> "TIMEOUT"
      [] OTHER -> "ERROR"

FailureText(device_row, m, kind) ==
    [header |-> Header(device_row, m), body |-> << <<Tag(kind)>> >>]

Chunk(cmd) == <<"$", cmd, <<"reply", cmd>>>>

ShowText(device_row, m, chunks) ==
    [header |-> Header(device_row, m), body |-> chunks]

\* Fault injection: a config transcript with one block per command.
ConfigTextPerCommand(device_row, m, cmds) ==
    [header |-> Header(device_row, m),
     body |-> [k \in 1..Len(cmds) |-> <<"config", <<cmds[k]>>>>]]

ConfigText(device_row, m, cmds) ==
    [header |-> Header(device_row, m), body |-> << <<"config", cmds>> >>]

(***************************************************************************)
(* The state after the interpreter has started main.                       *)
(***************************************************************************)
NewUnit(device_row) ==
    [pc |-> "queued", row |-> device_row, ts |-> 0, session |-> "none",
     exc |-> NoExc, chunks |-> <<>>, trace |-> <<>>, output |-> <<>>,
     wrote |-> <<>>]

Idle ==
    /\ submitted = 0
    /\ workQueue = <<>>
    /\ unit = <<>>
    /\ files = <<>>
    /\ clock = 0
    /\ doneOrder = <<>>
    /\ waiting = FALSE
    /\ snapshot = {}
    /\ waiterList = <<>>
    /\ yielded = <<>>
    /\ results = <<>>
    /\ probe = <<>>
    /\ answer = <<>>

\* A run of the script without --ask, from the command line on.
Init ==
    /\ mainPc = "parse_args"
    /\ mode \in Modes
    /\ threads \in 0..MaxThreads
    /\ typed = ""
    /\ cmd_delay = 0
    /\ csvRows \in Inventories
    /\ cmdLines \in CommandFiles
    /\ g_secret = ""
    /\ devices = <<>>
    /\ commands = <<>>
    /\ Idle

(***************************************************************************)
(* main, up to the pool.                                                   *)
(***************************************************************************)
MainStep(from, to) ==
    /\ mainPc = from
    /\ mainPc' = to
    /\ UNCHANGED <<inputs, clock>>

\* parser.parse_args(): choices=["show", "config"] rejects any other mode.
ParseArgs ==
    /\ MainStep("parse_args",
                IF mode \in ModeChoices THEN "load_devices" ELSE "usage_error")
    /\ UNCHANGED <<g_secret, devices, commands, poolVars, collectVars>>

\* Fault injection: a loader that returns an empty list to main.
LoadedUnchecked(loaded, next) == next

\* if not devices / if not cmds: raise ValueError, which ends main.
Loaded(loaded, next) == IF loaded = <<>> THEN "load_failed" ELSE next

LoadDevices ==
    /\ MainStep("load_devices", Loaded(load_devices(csvRows), "load_commands"))
    /\ devices' = load_devices(csvRows)
    /\ UNCHANGED <<g_secret, commands, poolVars, collectVars>>

LoadCommands ==
    /\ MainStep("load_commands", Loaded(load_commands(cmdLines), "prompt"))
    /\ commands' = load_commands(cmdLines)
    /\ UNCHANGED <<g_secret, devices, poolVars, collectVars>>

\* --ask: g_secret is what was typed, or None; without --ask it stays None.
Prompt ==
    /\ MainStep("prompt", "make_pool")
    /\ g_secret' = typed
    /\ UNCHANGED <<devices, commands, poolVars, collectVars>>

\* args.out.mkdir(...), then ThreadPoolExecutor(max_workers=args.threads),
\* which raises ValueError for a value <= 0.
MakePool ==
    /\ MainStep("make_pool", IF threads <= 0 THEN "crashed" ELSE "submit")
    /\ UNCHANGED <<g_secret, devices, commands, poolVars, collectVars>>

\* pool.submit(run_on_device, dev, ...): queues the work item and returns.
Submit ==
    /\ mainPc = "submit"
    /\ submitted < Len(devices)
    /\ submitted' = submitted + 1
    /\ unit' = Append(unit, NewUnit(devices[submitted + 1]))
    /\ workQueue' = Append(workQueue, submitted + 1)
    /\ UNCHANGED <<mainPc, inputs, clock, g_secret, devices, commands, files,
                   doneOrder, collectVars>>

(***************************************************************************)
(* The worker pool: a queued work item is taken, in submission order, by   *)
(* one of at most max_workers threads, each of which runs one              *)
(* run_on_device call at a time.                                           *)
(***************************************************************************)
Units == 1..Len(unit)

Finished(i) == unit[i].pc \in {"returned", "raised"}

Busy == {i \in Units : unit[i].pc /= "queued" /\ ~Finished(i)}

\* Fault injection: a pool that starts a thread for every work item.
WorkerFreeUnbounded == TRUE

WorkerFree == Cardinality(Busy) < threads

Log(u, event) == [u EXCEPT !.trace = Append(@, event)]

UnitStep(i, u) ==
    /\ unit' = [unit EXCEPT ![i] = u]
    /\ UNCHANGED <<mainPc, inputs, clock, g_secret, devices, commands,
                   submitted, workQueue, files, doneOrder, collectVars>>

\* A worker takes the work item and run_on_device runs up to the try:
\* host, hostname, params, ts, fname, header.
Start(i) ==
    /\ workQueue /= <<>>
    /\ i = Head(workQueue)
    /\ WorkerFree
    /\ workQueue' = Tail(workQueue)
    /\ unit' = [unit EXCEPT ![i] = [@ EXCEPT !.pc = "connect", !.ts = clock]]
    /\ UNCHANGED <<mainPc, inputs, clock, g_secret, devices, commands,
                   submitted, files, doneOrder, collectVars>>

\* Fault injection: an exception that leaves the with block without __exit__.
RaiseUnclosed(u, kind) == [u EXCEPT !.exc = Class(kind), !.pc = "handler"]

\* Where a raised exception goes: out of the with block when a session is
\* open (its __exit__ closes it first), else straight to the handlers.
Raise(u, kind) ==
    [u EXCEPT !.exc = Class(kind),
              !.pc = IF u.session = "open" THEN "closing" ELSE "handler"]

\* Fault injection: elevation decided on the record's own secret alone.
AfterConnectRowSecret(u) ==
    IF u.row.secret /= "" THEN "enable" ELSE "dispatch"

AfterConnect(u) ==
    IF Get(Params(u.row), "secret", "") /= "" THEN "enable" ELSE "dispatch"

\* ConnectHandler(**params): the session opens, or the constructor raises.
Connect(i) ==
    /\ unit[i].pc = "connect"
    /\ \E outcome \in {"ok"} \cup ExcKinds :
          UnitStep(i,
              IF outcome = "ok"
              THEN [Log(unit[i], <<"connect">>) EXCEPT
                        !.session = "open", !.pc = AfterConnect(unit[i])]
              ELSE Raise(unit[i], outcome))

\* Fault injection: an inner except clause that lets timeouts through.
EnableRaisedTimeoutFatal(u, kind) ==
    IF kind = "timeout"
    THEN [u EXCEPT !.exc = kind, !.pc = "closing"]
    ELSE [u EXCEPT !.pc = "dispatch"]

\* What becomes of an exception raised by conn.enable().
EnableRaised(u, kind) == [u EXCEPT !.pc = "dispatch"]

\* conn.enable() inside its own try/except Exception.
Enable(i) ==
    /\ unit[i].pc = "enable"
    /\ \E outcome \in {"ok"} \cup ExcKinds :
          UnitStep(i,
              IF outcome = "ok"
              THEN [Log(unit[i], <<"enable", TRUE>>) EXCEPT
                        !.pc = "dispatch"]
              ELSE EnableRaised(Log(unit[i], <<"enable", FALSE>>), outcome))

\* Fault injection: a loop that walks the command list from its end.
NextCmdReversed(u) == commands[Len(commands) - Len(u.chunks)]

\* The command the show loop is at: one chunk is appended per command done.
NextCmd(u) == commands[Len(u.chunks) + 1]

\* What becomes of an exception raised by send_command(cmd, read_timeout=90).
SendRaised(u, kind) ==
    IF kind = "type" THEN [u EXCEPT !.pc = "retry"] ELSE Raise(u, kind)

\* mode == "show": conn.send_command(cmd, read_timeout=90) for the next
\* command of the loop.
Send(i) ==
    /\ unit[i].pc = "dispatch"
    /\ mode = "show"
    /\ Len(unit[i].chunks) < Len(commands)
    /\ \E outcome \in {"ok"} \cup ExcKinds :
          LET cmd == NextCmd(unit[i])
              u   == Log(unit[i], <<"send", cmd>>)
          IN  UnitStep(i,
                  IF outcome = "ok"
                  THEN [u EXCEPT !.chunks = Append(@, Chunk(cmd))]
                  ELSE SendRaised(u, outcome))

\* except TypeError: out = conn.send_command(cmd), outside any inner try.
Retry(i) ==
    /\ unit[i].pc = "retry"
    /\ \E outcome \in {"ok"} \cup ExcKinds :
          LET cmd == NextCmd(unit[i])
              u   == Log(unit[i], <<"retry", cmd>>)
          IN  UnitStep(i,
                  IF outcome = "ok"
                  THEN [u EXCEPT !.chunks = Append(@, Chunk(cmd)),
                                 !.pc = "dispatch"]
                  ELSE Raise(u, outcome))

\* The show loop is over: output = header_txt + "\n".join(output_chunks),
\* and control leaves the with block.
EndShow(i) ==
    /\ unit[i].pc = "dispatch"
    /\ mode = "show"
    /\ Len(unit[i].chunks) = Len(commands)
    /\ UnitStep(i, [unit[i] EXCEPT
                       !.output = ShowText(unit[i].row, mode, unit[i].chunks),
                       !.pc = "closing"])

\* The call conn.send_config_set(cmds, exit_config_mode=...), as logged.
send_config_set(cmds, exit_config_mode) == <<"config", cmds, exit_config_mode>>

\* mode == "config": conn.send_config_set(commands, exit_config_mode=True);
\* any other mode: raise ValueError.
SendConfig(i) ==
    /\ unit[i].pc = "dispatch"
    /\ mode /= "show"
    /\ \E outcome \in {"ok"} \cup ExcKinds :
          LET u == Log(unit[i], send_config_set(commands, TRUE))
          IN  UnitStep(i,
                  IF mode /= "config"
                  THEN Raise(Log(unit[i], <<"mode_error">>), "other")
                  ELSE IF outcome = "ok"
                  THEN [u EXCEPT
                           !.output = ConfigText(unit[i].row, mode, commands),
                           !.pc = "closing"]
                  ELSE Raise(u, outcome))

\* ConnectHandler.__exit__: disconnect, then go on or re-raise.
Close(i) ==
    /\ unit[i].pc = "closing"
    /\ UnitStep(i, [Log(unit[i], <<"close">>) EXCEPT
                       !.session = "closed",
                       !.pc = IF unit[i].exc = NoExc THEN "write"
                              ELSE "handler"])

(***************************************************************************)
(* The transcript write and the end of the call.  write_text replaces the  *)
(* file's content or raises OSError; two writes to one path are taken one  *)
(* after the other.                                                        *)
(***************************************************************************)
WriteOutcomes == {"ok", "oserror"}

write_text(path, text) ==
    [p \in (DOMAIN files) \cup {path} |-> IF p = path THEN text ELSE files[p]]

\* The future behind unit i gets its result or its exception; a waiter that
\* as_completed has installed is told.
FutureDone(i) ==
    /\ doneOrder' = Append(doneOrder, i)
    /\ waiterList' = IF waiting THEN Append(waiterList, i) ELSE waiterList
    /\ UNCHANGED <<mainPc, inputs, clock, g_secret, devices, commands,
                   submitted, workQueue, waiting, snapshot, yielded, results>>

\* What becomes of an OSError raised by the write in the try block.
WriteRaised(u) == [u EXCEPT !.exc = "other", !.pc = "handler"]

\* outfile.write_text(output); return outfile.
WriteTranscript(i) ==
    /\ unit[i].pc = "write"
    /\ \E outcome \in WriteOutcomes :
          LET u == Log(unit[i], <<"write">>)
          IN  IF outcome = "ok"
              THEN /\ files' = write_text(Outfile(i), unit[i].output)
                   /\ unit' = [unit EXCEPT ![i] =
                          [u EXCEPT !.wrote = <<unit[i].output>>,
                                    !.pc = "returned"]]
                   /\ FutureDone(i)
              ELSE /\ UnitStep(i, WriteRaised(u))

\* Fault injection: a handler that keeps the output gathered so far.
HandlerTextWithChunks(u) ==
    [header |-> Header(u.row, mode),
     body |-> u.chunks \o << <<Tag(u.exc)>> >>]

\* The text an except clause writes for the exception it caught.
HandlerText(u) == FailureText(u.row, mode, u.exc)

\* except ...: outfile.write_text(header_txt + "<TAG>: ..."); return outfile.
\* An OSError raised here is raised out of run_on_device.
Handle(i) ==
    /\ unit[i].pc = "handler"
    /\ \E outcome \in WriteOutcomes :
          LET u == Log(unit[i], <<"write">>)
          IN  /\ files' = IF outcome = "ok"
                          THEN write_text(Outfile(i), HandlerText(unit[i]))
                          ELSE files
              /\ unit' = [unit EXCEPT ![i] =
                     IF outcome = "ok"
                     THEN [u EXCEPT !.wrote = <<HandlerText(unit[i])>>,
                                    !.pc = "returned"]
                     ELSE [u EXCEPT !.pc = "raised"]]
              /\ FutureDone(i)

\* The wall clock; it is read only when a unit starts.
Tick ==
    /\ mainPc \in {"submit", "collect", "unwinding"}
    /\ submitted < Len(devices) \/ workQueue /= <<>>
    /\ clock < MaxClock
    /\ clock' = clock + 1
    /\ UNCHANGED <<mainPc, inputs, g_secret, devices, commands, poolVars,
                   collectVars>>

(***************************************************************************)
(* main, from as_completed on.                                             *)
(***************************************************************************)
\* as_completed(futures): the futures already finished are set aside as a
\* set, and a waiter is installed on all of them.
AsCompleted ==
    /\ mainPc = "submit"
    /\ submitted = Len(devices)
    /\ mainPc' = "collect"
    /\ waiting' = TRUE
    /\ snapshot' = {i \in Units : Finished(i)}
    /\ UNCHANGED <<inputs, clock, g_secret, devices, commands, poolVars,
                   waiterList, yielded, results>>

Range(q) == {q[k] : k \in 1..Len(q)}

Remove(q, x) == SelectSeq(q, LAMBDA y : y /= x)

\* Fault injection: the finished futures yielded in any order.
NextYieldAny == (snapshot \ Range(yielded)) \cup Range(waiterList)

\* The futures as_completed may yield next: those set aside at the call in
\* the order a set iterates (any), then the others as they finished.
NextYield ==
    IF snapshot \ Range(yielded) /= {} THEN snapshot \ Range(yielded)
    ELSE IF waiterList /= <<>> THEN {Head(waiterList)}
    ELSE {}

\* results.append(f.result()) for the next future; f.result() re-raises the
\* call's exception, which ends the loop and unwinds the with block.
Collect ==
    /\ mainPc = "collect"
    /\ \E i \in NextYield :
          /\ waiterList' = Remove(waiterList, i)
          /\ yielded' = Append(yielded, i)
          /\ IF unit[i].pc = "returned"
             THEN /\ results' = Append(results, Outfile(i))
                  /\ UNCHANGED <<mainPc, waiting>>
             ELSE /\ mainPc' = "unwinding"
                  /\ waiting' = FALSE
                  /\ UNCHANGED results
    /\ UNCHANGED <<inputs, clock, g_secret, devices, commands, poolVars,
                   snapshot>>

\* Every future has been yielded: the with block ends and main prints.
PrintResults ==
    /\ mainPc = "collect"
    /\ Len(yielded) = Len(devices)
    /\ mainPc' = "done"
    /\ waiting' = FALSE
    /\ UNCHANGED <<inputs, clock, g_secret, devices, commands, poolVars,
                   snapshot, waiterList, yielded, results>>

\* The with block's exit on an exception: shutdown(wait=True) lets every
\* submitted call finish, then the exception leaves main.
Unwind ==
    /\ mainPc = "unwinding"
    /\ \A i \in Units : Finished(i)
    /\ mainPc' = "crashed"
    /\ UNCHANGED <<inputs, clock, g_secret, devices, commands, poolVars,
                   collectVars>>

Next ==
    \/ ParseArgs
    \/ LoadDevices
    \/ LoadCommands
    \/ Prompt
    \/ MakePool
    \/ Submit
    \/ AsCompleted
    \/ Collect
    \/ PrintResults
    \/ Unwind
    \/ Tick
    \/ \E i \in Units : Start(i)
    \/ \E i \in Units : Connect(i)
    \/ \E i \in Units : Enable(i)
    \/ \E i \in Units : Send(i)
    \/ \E i \in Units : Retry(i)
    \/ \E i \in Units : EndShow(i)
    \/ \E i \in Units : SendConfig(i)
    \/ \E i \in Units : Close(i)
    \/ \E i \in Units : WriteTranscript(i)
    \/ \E i \in Units : Handle(i)

Spec == Init /\ [][Next]_vars

(***************************************************************************)
(* One run_on_device call on its own: main's pool and loop around a single *)
(* device record, entered after the loading phase with any mode string,    *)
(* any fallback secret and a command list of any length up to MaxCommands. *)
(***************************************************************************)
MaxCommands == 2

Command(k) == <<"c", DigitChars[k + 1]>>

UnitCommands == {[k \in 1..n |-> Command(k)] : n \in 1..MaxCommands}

UnitRows == {StripRow(r) : r \in {q \in RawRows : HasHost(StripRow(q))}}

InitUnit ==
    /\ mainPc = "submit"
    /\ mode \in Modes
    /\ threads = 1
    /\ typed \in TypedSecrets
    /\ cmd_delay \in Delays
    /\ g_secret = typed
    /\ csvRows = <<>>
    /\ cmdLines = <<>>
    /\ devices \in {<<r>> : r \in UnitRows}
    /\ commands \in UnitCommands
    /\ Idle

NextUnit ==
    \/ Submit
    \/ AsCompleted
    \/ Collect
    \/ PrintResults
    \/ Unwind
    \/ Tick
    \/ \E i \in Units : Start(i)
    \/ \E i \in Units : Connect(i)
    \/ \E i \in Units : Enable(i)
    \/ \E i \in Units : Send(i)
    \/ \E i \in Units : Retry(i)
    \/ \E i \in Units : EndShow(i)
    \/ \E i \in Units : SendConfig(i)
    \/ \E i \in Units : Close(i)
    \/ \E i \in Units : WriteTranscript(i)
    \/ \E i \in Units : Handle(i)

SpecUnit == InitUnit /\ [][NextUnit]_vars

(***************************************************************************)
(* build_params on its own, on rows whose port is any short string.        *)
(***************************************************************************)
PortChars == {"0", "2", "-", "a"}

PortStrings == SeqsUpTo(PortChars, MaxPortLen)

ProbeRows ==
    {Row(<<"s", "w">>, <<"h">>, secret, port) :
        secret \in {"", "s3"}, port \in PortStrings}

\* A params without the port key leaves the port to the session library,
\* which then connects to its default.
HasPort(params) == "port" \in DOMAIN params

InitParams ==
    /\ mainPc = "build_params"
    /\ mode \in ModeChoices
    /\ threads = 1
    /\ typed \in TypedSecrets
    /\ cmd_delay = 0
    /\ g_secret = typed
    /\ csvRows = <<>>
    /\ cmdLines = <<>>
    /\ devices = <<>>
    /\ commands = <<>>
    /\ submitted = 0
    /\ workQueue = <<>>
    /\ unit = <<>>
    /\ files = <<>>
    /\ clock = 0
    /\ doneOrder = <<>>
    /\ waiting = FALSE
    /\ snapshot = {}
    /\ waiterList = <<>>
    /\ yielded = <<>>
    /\ results = <<>>
    /\ probe \in ProbeRows
    /\ answer = <<>>

\* params = build_params(device_row, ...) and the header lines built on it.
BuildParams ==
    /\ mainPc = "build_params"
    /\ mainPc' = "built"
    /\ answer' = [params |-> Params(probe), header |-> Header(probe, mode)]
    /\ UNCHANGED <<mode, threads, typed, cmd_delay, csvRows, cmdLines, probe,
                   clock, g_secret, devices, commands, poolVars, collectVars>>

NextParams == BuildParams

SpecParams == InitParams /\ [][NextParams]_vars

(***************************************************************************)
(* Properties of a batch run (Spec).                                       *)
(***************************************************************************)
RunEnded == mainPc \in {"done", "crashed"}

Wrote(i) == unit[i].wrote /= <<>>

Open == {i \in Units : unit[i].pc = "connect" \/ unit[i].session = "open"}

Pos(q, x) == CHOOSE k \in 1..Len(q) : q[k] = x

\* C1: when the run ends, the output directory holds exactly one transcript
\* file per submitted device: M submitted devices, M distinct files.
C1_OneTranscriptPerDevice ==
    RunEnded => Cardinality(DOMAIN files) = submitted

\* C2: no exception escapes run_on_device: every unit that finishes has
\* returned a transcript path, so f.result() never raises and main reaches
\* the final print, whatever failed for the device (the transcript write
\* included).
C2_EveryUnitReturnsPath ==
    /\ \A i \in Units : Finished(i) => unit[i].pc = "returned"
    /\ mainPc \notin {"unwinding"}

\* C3: at most --threads device sessions are between connect and close at
\* the same time.
C3_SessionsBounded == Cardinality(Open) <= threads

C3_Witness ==
    /\ Len(devices) > threads
    /\ Cardinality({i \in Units : unit[i].session = "open"}) = threads
    /\ workQueue /= <<>>

\* C4 as claimed: no two units of a run write to the same transcript path,
\* and the file a unit wrote keeps that unit's transcript.
C4_NoSharedPath ==
    \A i, j \in Units :
        Wrote(i) /\ Wrote(j) /\ i /= j => Outfile(i) /= Outfile(j)

\* C4 as amended: two units write to the same transcript path only if they
\* started in the same second, and the file of a unit whose path no other
\* unit wrote to holds exactly the transcript that unit wrote.
C4_SharedPathOnlySameSecond ==
    \A i \in Units :
        Wrote(i) =>
            /\ \A j \in Units :
                  Wrote(j) /\ Outfile(i) = Outfile(j)
                      => unit[i].ts = unit[j].ts
            /\ (\A j \in Units \ {i} : Wrote(j) => Outfile(j) /= Outfile(i))
                  => /\ Outfile(i) \in DOMAIN files
                     /\ files[Outfile(i)] = unit[i].wrote[1]

C4_Witness ==
    \E i, j \in Units :
        /\ i /= j /\ Wrote(i) /\ Wrote(j)
        /\ unit[i].row = unit[j].row
        /\ unit[i].ts /= unit[j].ts
        /\ Cardinality(DOMAIN files) = 2

\* C5 as claimed: results is in completion order: a unit that finished
\* earlier comes earlier in the list, also among the units that had finished
\* before result collection began.
C5_CompletionOrder ==
    \A a, b \in 1..Len(results) :
        a < b => Pos(doneOrder, yielded[a]) < Pos(doneOrder, yielded[b])

\* C5 as amended: results holds the path of each yielded unit; the units
\* that had finished before as_completed was called come first, in any
\* order, and the units that finished later follow in completion order.
C5_CompletionOrderAfterCall ==
    \A a, b \in 1..Len(results) :
        /\ results[a] = Outfile(yielded[a])
        /\ a < b =>
              /\ yielded[b] \in snapshot => yielded[a] \in snapshot
              /\ yielded[a] \notin snapshot /\ yielded[b] \notin snapshot
                    => Pos(doneOrder, yielded[a]) < Pos(doneOrder, yielded[b])

C5_Witness ==
    /\ Len(results) = 2
    /\ snapshot = {}
    /\ mainPc = "done"

(***************************************************************************)
(* Properties of one run_on_device call (SpecUnit).                        *)
(***************************************************************************)
Connected(i) == <<"connect">> \in Range(unit[i].trace)

LeftWith(i) == unit[i].pc \in {"write", "handler", "returned", "raised"}

EnableAt(i) == {k \in 1..Len(unit[i].trace) : unit[i].trace[k][1] = "enable"}

SendAt(i) ==
    {k \in 1..Len(unit[i].trace) :
        unit[i].trace[k][1] \in {"send", "retry", "config"}}

ResolvedSecret(i) ==
    IF unit[i].row.secret /= "" THEN unit[i].row.secret ELSE g_secret

\* C6: a unit whose connect succeeded has closed its session, once and
\* after the connect, by the time control is past the with block on any
\* path (success, failed elevation, a command that raised, a rejected
\* mode), and so before it returns.
C6_SessionClosedOnEveryExit ==
    \A i \in Units :
        /\ LeftWith(i) => unit[i].session /= "open"
        /\ LeftWith(i) /\ Connected(i) =>
              /\ unit[i].session = "closed"
              /\ \E k \in 1..Len(unit[i].trace) :
                    /\ unit[i].trace[k] = <<"close">>
                    /\ \A n \in SendAt(i) \cup EnableAt(i) : n < k

C6_Witness ==
    \E i \in Units :
        /\ Finished(i)
        /\ Connected(i)
        /\ mode \notin ModeChoices
        /\ unit[i].session = "closed"

\* C7: the transcript a unit writes after a failure is the header followed
\* by exactly one line, tagged AUTHENTICATION FAILED for an authentication
\* failure, TIMEOUT for a connection/timeout failure and ERROR for any other
\* failure, with no `$ <command>` block, also when commands had already
\* returned output.
C7_FailureTranscript ==
    \A i \in Units :
        Wrote(i) /\ unit[i].exc /= NoExc =>
            LET text == unit[i].wrote[1]
            IN  /\ text.header = Header(unit[i].row, mode)
                /\ Len(text.body) = 1
                /\ unit[i].exc = "auth"
                      => text.body[1] = <<"AUTHENTICATION FAILED">>
                /\ unit[i].exc = "timeout" => text.body[1] = <<"TIMEOUT">>
                /\ unit[i].exc \notin {"auth", "timeout"}
                      => text.body[1] = <<"ERROR">>
                /\ \A k \in 1..Len(text.body) : text.body[k][1] /= "$"
                /\ files[Outfile(i)] = text

C7_Witness ==
    \E i \in Units :
        /\ Wrote(i)
        /\ unit[i].exc = "timeout"
        /\ unit[i].chunks /= <<>>

\* C9: on a connected session privilege elevation is attempted exactly when
\* the resolved secret (the record's, else the global fallback) is
\* non-empty: once, right after connect and before any command is sent;
\* with an empty resolved secret it is never attempted.
C9_ElevationIffSecret ==
    \A i \in Units :
        /\ Cardinality(EnableAt(i)) <= 1
        /\ \A k \in EnableAt(i) :
              /\ k > 1 /\ unit[i].trace[k - 1] = <<"connect">>
              /\ \A n \in SendAt(i) : k < n
        /\ ResolvedSecret(i) = "" => EnableAt(i) = {}
        /\ ResolvedSecret(i) /= "" /\ Connected(i) /\ unit[i].pc /= "enable"
              => Cardinality(EnableAt(i)) = 1
        /\ SendAt(i) /= {} /\ ResolvedSecret(i) /= "" => EnableAt(i) /= {}

C9_Witness ==
    \E i \in Units :
        /\ unit[i].row.secret = ""
        /\ g_secret /= ""
        /\ EnableAt(i) /= {}
        /\ SendAt(i) /= {}

EnableFailed(i) == <<"enable", FALSE>> \in Range(unit[i].trace)

\* C10: after a failed elevation, whatever was raised, the unit is at
\* command dispatch with the same session open and no exception pending;
\* if the commands then succeed the transcript it writes is a success
\* transcript: one block per command (show) or the transaction's block
\* (config), and no failure line.
C10_ElevationFailureNonFatal ==
    \A i \in Units :
        EnableFailed(i) =>
            /\ unit[i].trace[Len(unit[i].trace)] = <<"enable", FALSE>>
                  => /\ unit[i].pc = "dispatch"
                     /\ unit[i].session = "open"
                     /\ unit[i].exc = NoExc
            /\ unit[i].pc = "returned" /\ unit[i].exc = NoExc
                  => unit[i].wrote[1].body =
                        IF mode = "show"
                        THEN [k \in 1..Len(commands) |-> Chunk(commands[k])]
                        ELSE << <<"config", commands>> >>

C10_Witness ==
    \E i \in Units :
        /\ EnableFailed(i)
        /\ unit[i].pc = "returned"
        /\ unit[i].exc = NoExc
        /\ mode = "show"
        /\ Len(unit[i].wrote[1].body) = Len(commands)

(***************************************************************************)
(* Properties of build_params (SpecParams).                                *)
(***************************************************************************)
\* C8: the port of the connection parameters is a valid positive integer
\* for every port string of the record: a string that does not parse leaves
\* the port to the default instead of raising, and no string gives a
\* non-positive port.
C8_PortPositive ==
    mainPc = "built" =>
        /\ HasPort(answer.params) => answer.params.port > 0
        /\ ~int(probe.port).ok => ~HasPort(answer.params)

(***************************************************************************)
(* Properties of the command dispatch of one call (SpecUnit).              *)
(***************************************************************************)
Events(i, kinds) == SelectSeq(unit[i].trace, LAMBDA e : e[1] \in kinds)

Succeeded(i) == unit[i].pc = "returned" /\ unit[i].exc = NoExc

Blocks(cmds) == [k \in 1..Len(cmds) |-> Chunk(cmds[k])]

\* C11: in show mode the commands are sent in command-list order, each one
\* only after the one before it has returned (a retry repeats the command
\* just sent), and the successful transcript holds one `$ <command>` block
\* per command in that same order.
C11_ShowInListOrder ==
    \A i \in Units :
        mode = "show" =>
            LET sent == Events(i, {"send"})
                t    == unit[i].trace
            IN  /\ Len(sent) <= Len(commands)
                /\ \A k \in 1..Len(sent) : sent[k] = <<"send", commands[k]>>
                /\ Len(unit[i].chunks) <= Len(sent)
                /\ Len(sent) <= Len(unit[i].chunks) + 1
                /\ \A n \in 1..Len(t) :
                      t[n][1] = "retry" =>
                          n > 1 /\ t[n - 1] = <<"send", t[n][2]>>
                /\ unit[i].chunks = Blocks(SubSeq(commands, 1, Len(unit[i].chunks)))
                /\ Succeeded(i) => unit[i].wrote[1].body = Blocks(commands)

C11_Witness ==
    \E i \in Units :
        /\ mode = "show"
        /\ Len(commands) = MaxCommands
        /\ Succeeded(i)
        /\ Events(i, {"retry"}) /= <<>>
        /\ Len(unit[i].wrote[1].body) = MaxCommands

\* C12: in config mode the whole command list goes to the session in exactly
\* one send_config_set call that leaves configuration mode at its end, no
\* command is sent on its own, and the successful transcript holds a single
\* combined block, whatever the number of commands.
C12_ConfigOneTransaction ==
    \A i \in Units :
        mode = "config" =>
            LET calls == Events(i, {"config"})
            IN  /\ Events(i, {"send", "retry"}) = <<>>
                /\ Len(calls) <= 1
                /\ \A k \in 1..Len(calls) :
                      calls[k] = <<"config", commands, TRUE>>
                /\ Succeeded(i) =>
                      /\ Len(calls) = 1
                      /\ Len(unit[i].wrote[1].body) = 1
                      /\ unit[i].wrote[1].body[1] = <<"config", commands>>

C12_Witness ==
    \E i \in Units :
        /\ mode = "config"
        /\ Len(commands) = MaxCommands
        /\ Succeeded(i)
        /\ files[Outfile(i)].body = << <<"config", commands>> >>

(***************************************************************************)
(* Properties of the start of a batch run (Spec).                          *)
(***************************************************************************)
ModeErrors(i) == Events(i, {"mode_error"})

\* C13: a mode other than show or config ends the run at the parsing of the
\* command line: nothing is loaded, no unit is submitted, no session is
\* opened and no transcript is written; in no run does a device unit reach
\* the mode error of run_on_device.
C13_UnknownModeFatalAtStart ==
    /\ mode \notin {"show", "config"} =>
          /\ mainPc \in {"parse_args", "usage_error"}
          /\ devices = <<>>
          /\ submitted = 0
          /\ unit = <<>>
          /\ files = <<>>
    /\ \A i \in Units : ModeErrors(i) = <<>>

C13_Witness ==
    /\ mode = "other"
    /\ mainPc = "usage_error"
    /\ load_devices(csvRows) /= <<>>
    /\ load_commands(cmdLines) /= <<>>

BlankText(s) == \A k \in 1..Len(s) : s[k] \in Space

\* C15: a row of the inventory whose host is empty or only whitespace is
\* dropped by load_devices: the loaded list is the rows with a host, in file
\* order, and every unit handed to the pool carries a non-empty host.
C15_EmptyHostNeverSubmitted ==
    /\ mainPc \notin {"parse_args", "usage_error", "load_devices"} =>
          /\ Len(devices)
                = Len(SelectSeq(csvRows, LAMBDA r : ~BlankText(r.host)))
          /\ \A k \in 1..Len(devices) : ~BlankText(devices[k].host)
    /\ \A i \in Units :
          /\ unit[i].row = devices[i]
          /\ unit[i].row.host /= <<>>
          /\ ~BlankText(unit[i].row.host)

C15_Witness ==
    /\ Len(csvRows) = 2
    /\ BlankText(csvRows[1].host)
    /\ Len(unit) = 1
    /\ unit[1].pc = "returned"
    /\ mainPc = "done"

(***************************************************************************)
(* Further properties of one run_on_device call (SpecUnit).                *)
(***************************************************************************)
\* C16: in show mode no failure of a command ends the device's command
\* loop: once connected, the unit leaves the with block only after every
\* command has been sent, a send that left an exception behind had been
\* retried, and the transcript written holds the block of every command that
\* returned output.
C16_CommandFailureNeverAborts ==
    \A i \in Units :
        mode = "show" /\ Connected(i) /\ LeftWith(i) =>
            LET tries == Events(i, {"send", "retry"})
            IN  /\ Len(Events(i, {"send"})) = Len(commands)
                /\ unit[i].exc /= NoExc /\ tries /= <<>>
                      => tries[Len(tries)][1] = "retry"
                /\ Wrote(i) =>
                      \A k \in 1..Len(unit[i].chunks) :
                          \E n \in 1..Len(unit[i].wrote[1].body) :
                              unit[i].wrote[1].body[n] = unit[i].chunks[k]

(***************************************************************************)
(* Properties of the worker pool (Spec).                                   *)
(***************************************************************************)
Queued == SelectSeq([k \in 1..Len(unit) |-> k], LAMBDA k : unit[k].pc = "queued")

Unfinished == {i \in Units : ~Finished(i)}

\* C17 as claimed: submission blocks at the concurrency bound: no submission
\* completes while --threads units are running, so device N+1 is not
\* submitted while N units are still running.
C17_SubmitBlocksAtCapacity ==
    [][Cardinality(Busy) >= threads => submitted' = submitted]_vars

\* C17 as amended: submission never blocks: while main is in its submit loop
\* the next device can be submitted whatever the pool is doing; a submitted
\* unit waits in the pool's queue, in submission order, and at most
\* --threads units are running at any time.
C17_SubmitQueuesStartBounded ==
    /\ mainPc = "submit" /\ submitted < Len(devices) => ENABLED Submit
    /\ workQueue = Queued
    /\ Cardinality(Busy) <= threads
    /\ Cardinality(Unfinished) <= Cardinality(Busy) + Len(workQueue)

C17_Witness ==
    /\ threads = 1
    /\ submitted = 2
    /\ unit[1].pc \notin {"queued", "returned", "raised"}
    /\ unit[2].pc = "queued"
    /\ mainPc = "collect"

(***************************************************************************)
(* load_commands on its own: main at line 179, on command files of up to   *)
(* MaxLines lines, some of them blank, whitespace or comments.             *)
(***************************************************************************)
MaxLines == 3

LoadLines ==
    { <<>>, <<" ">>, <<"\t", " ">>, <<"#", "x">>, <<"!">>, <<" ", "#">>,
      <<"a">>, <<" ", "b", " ">> }

LoadFiles == SeqsUpTo(LoadLines, MaxLines)

InitLoad ==
    /\ mainPc = "load_commands"
    /\ mode = "show"
    /\ threads = 1
    /\ typed = ""
    /\ cmd_delay = 0
    /\ g_secret = ""
    /\ csvRows = << Row(<<"s", "w">>, <<"h">>, "", <<>>) >>
    /\ cmdLines \in LoadFiles
    /\ devices = load_devices(csvRows)
    /\ commands = <<>>
    /\ Idle

NextLoad == LoadCommands

SpecLoad == InitLoad /\ [][NextLoad]_vars

CommentLine(ln) == lstrip(ln) /= <<>> /\ Head(lstrip(ln)) \in {"#", "!"}

\* C18: load_commands returns the lines of the file that are neither blank
\* (empty or only whitespace) nor comments (first character `#` or `!`), in
\* file order, and fails when none is left.
C18_OnlyCommandLines ==
    mainPc \in {"prompt", "load_failed"} =>
        LET kept == SelectSeq(cmdLines,
                        LAMBDA ln : ~BlankText(ln) /\ ~CommentLine(ln))
        IN  /\ commands = kept
            /\ mainPc = "load_failed" <=> kept = <<>>

(***************************************************************************)
(* The naming of the transcript on its own: run_on_device at lines 104 to  *)
(* 110 on a loaded row whose hostname is any short string, or the label of *)
(* the sanitization scenario.                                              *)
(***************************************************************************)
MaxLabelLen == 4

LabelChars == {" ", "\t", "/", ":", "a"}

ExampleLabel == <<"c", "o", "r", "e", " ", "/", " ", "s", "w", " ", "0", "1">>

Labels == SeqsUpTo(LabelChars, MaxLabelLen) \cup {ExampleLabel}

NameRows == {StripRow(Row(label, <<"h">>, "", <<>>)) : label \in Labels}

InitName ==
    /\ mainPc = "name"
    /\ mode = "show"
    /\ threads = 1
    /\ typed = ""
    /\ cmd_delay = 0
    /\ g_secret = ""
    /\ csvRows = <<>>
    /\ cmdLines = <<>>
    /\ devices = <<>>
    /\ commands = <<>>
    /\ submitted = 0
    /\ workQueue = <<>>
    /\ unit = <<>>
    /\ files = <<>>
    /\ clock \in 0..MaxClock
    /\ doneOrder = <<>>
    /\ waiting = FALSE
    /\ snapshot = {}
    /\ waiterList = <<>>
    /\ yielded = <<>>
    /\ results = <<>>
    /\ probe \in NameRows
    /\ answer = <<>>

\* hostname = device_row.get("hostname") or host; fname = f"{safe_hostname(
\* hostname)}_{host}_{ts}.log".
NameFile ==
    /\ mainPc = "name"
    /\ mainPc' = "named"
    /\ answer' = [hostname |-> Hostname(probe),
                  label |-> safe_hostname(Hostname(probe)),
                  fname |-> Fname(probe, clock)]
    /\ UNCHANGED <<mode, threads, typed, cmd_delay, csvRows, cmdLines, probe,
                   clock, g_secret, devices, commands, poolVars, collectVars>>

NextName == NameFile

SpecName == InitName /\ [][NextName]_vars

\* The sanitization as the naming algorithm words it.
RECURSIVE CollapseRuns(_)
CollapseRuns(s) ==
    IF s = <<>> THEN <<>>
    ELSE IF Head(s) \in Space
         THEN IF Tail(s) /= <<>> /\ Head(Tail(s)) \in Space
              THEN CollapseRuns(Tail(s))
              ELSE <<" ">> \o CollapseRuns(Tail(s))
         ELSE <<Head(s)>> \o CollapseRuns(Tail(s))

Hyphenate(s) ==
    [k \in 1..Len(s) |->
        IF s[k] \in {"\\", "/", "<", ">", ":", "\"", "|", "?", "*"} THEN "-"
        ELSE s[k]]

Underscore(s) == [k \in 1..Len(s) |-> IF s[k] = " " THEN "_" ELSE s[k]]

\* C19: for every display label, safe_hostname gives the label with each run
\* of whitespace collapsed to one space, each reserved character
\* (\ / < > : " | ? *) then replaced by a hyphen and each space then replaced
\* by an underscore; the result holds no whitespace and no reserved
\* character, and "core / sw 01" gives "core_-_sw_01".
C19_SanitizedLabel ==
    mainPc = "named" =>
        /\ answer.label = Underscore(Hyphenate(CollapseRuns(answer.hostname)))
        /\ \A k \in 1..Len(answer.label) :
              /\ answer.label[k] \notin {" ", "\t"}
              /\ answer.label[k] \notin
                    {"\\", "/", "<", ">", ":", "\"", "|", "?", "*"}
        /\ answer.hostname = ExampleLabel =>
              answer.label = <<"c", "o", "r", "e", "_", "-", "_", "s", "w",
                               "_", "0", "1">>
        /\ SubSeq(answer.fname, 1, Len(answer.label)) = answer.label

C19_Witness ==
    /\ mainPc = "named"
    /\ answer.hostname = ExampleLabel
    /\ answer.label = <<"c", "o", "r", "e", "_", "-", "_", "s", "w", "_", "0",
                        "1">>

(***************************************************************************)
(* The inter-command delay (SpecUnit).                                     *)
(***************************************************************************)
\* C20: with a positive --cmd-delay a show unit waits for that delay between
\* two consecutive commands: every command after the first is sent right
\* after a wait of cmd_delay, never right after the previous command has
\* returned.
C20_DelayBetweenCommands ==
    \A i \in Units :
        mode = "show" /\ cmd_delay > 0 =>
            LET t == unit[i].trace
            IN  \A n \in 1..Len(t) :
                    /\ t[n][1] = "send"
                    /\ \E m \in 1..(n - 1) : t[m][1] = "send"
                    => t[n - 1] = <<"sleep", cmd_delay>>

====
